---- MODULE Spec2Model ----
(***************************************************************************)
(* Model of langchain_community/chat_models/cohere.py: the role mapper     *)
(* get_role, the request builder get_cohere_chat_request and the four call *)
(* variants of ChatCohere (_generate, _agenerate, _stream, _astream).      *)
(*                                                                         *)
(* One call is in progress at a time.  `pc` is the position of that call:  *)
(*   idle     nothing is in progress                                       *)
(*   called   the arguments are bound, the body has not run yet            *)
(*   built    a direct call of get_role / get_cohere_chat_request returned *)
(*   chat     the vendor chat(...) call is in flight                       *)
(*   fetch    the fetch of the next event of the vendor stream is in flight*)
(*   yielded  the generator is suspended at `yield chunk`                  *)
(*   done     the handler returned / the generator is exhausted            *)
(*   raised   an exception left the handler                                *)
(*   closed   the consumer dropped the generator while it was suspended    *)
(***************************************************************************)
EXTENDS Integers, Sequences, FiniteSets, TLC

VARIABLES
    variant,      \* the function that was called
    streaming,    \* self.streaming, as read by _generate / _agenerate
    run_manager,  \* TRUE iff a run_manager (progress callback) was passed
    pc,           \* position of the call, see above
    messages,     \* argument `messages`
    connectors,   \* argument `connectors`
    kwargs,       \* argument `**kwargs`
    request,      \* what the called function returned or raised
    error,        \* the exception that left the handler, "none" if none
    vendorCalls,  \* chat(...) calls issued by the current call
    awaited,      \* TRUE iff the vendor call in flight is awaited
    otherRan,     \* TRUE iff another task ran during the current suspension
    consumed,     \* vendor events fetched from the stream so far
    delivered,    \* texts of the chunks yielded to the consumer so far
    reported,     \* tokens passed to run_manager.on_llm_new_token so far
    response,     \* the vendor response of a non-streaming call
    result        \* the ChatResult returned by _generate / _agenerate

vars == <<variant, streaming, run_manager, pc, messages, connectors, kwargs,
          request, error, vendorCalls, awaited, otherRan, consumed, delivered,
          reported, response, result>>

----------------------------------------------------------------------------
(* Bounds of the model.                                                    *)

MaxMsgs == 3

MaxDocs == 2

MaxEvents == 4

----------------------------------------------------------------------------
(* Python values whose type varies from one call to the next.              *)

None == [py |-> "None"]

PyStr(s) == [py |-> "str", v |-> s]

PyInt(n) == [py |-> "int", v |-> n]

PyFloat(s) == [py |-> "float", v |-> s]

PyList(q) == [py |-> "list", v |-> q]

\* Python truthiness, as used by `x or y`.
Truthy(x) ==
    CASE x.py = "None" -> FALSE
      [] x.py = "str" -> x.v # ""
      [] x.py = "int" -> x.v # 0
      [] x.py = "list" -> Len(x.v) > 0
      [] OTHER -> TRUE

\* dict.get(key): the value, or None when the key is absent.
DictGet(d, key) == IF key \in DOMAIN d THEN d[key] ELSE None

\* {**a, **b}: the keys of both, b taking precedence.
DictMerge(a, b) ==
    [k \in (DOMAIN a) \cup (DOMAIN b) |-> IF k \in DOMAIN b THEN b[k] ELSE a[k]]

\* The dict d without the key `key` (dict.pop(key, None)).
DictPop(d, key) == [k \in (DOMAIN d) \ {key} |-> d[k]]

EmptyDict == [k \in {} |-> None]

Raise(exc) == [raised |-> exc]

Raised(r) == "raised" \in DOMAIN r

----------------------------------------------------------------------------
(* Inputs.                                                                 *)

\* The message classes get_role tests for, and two it does not.
MessageKinds ==
    {"ChatMessage", "HumanMessage", "AIMessage", "SystemMessage",
     "FunctionMessage", "ToolMessage"}

Msg(kind, content) == [kind |-> kind, content |-> content]

RoleInputs == {Msg(k, "hi") : k \in MessageKinds}

SampleMessages ==
    {Msg("HumanMessage", "hi"), Msg("AIMessage", "hello"),
     Msg("HumanMessage", "how are you"), Msg("SystemMessage", "be brief"),
     Msg("FunctionMessage", "42")}

Histories == UNION {[1..n -> SampleMessages] : n \in 0..MaxMsgs}

Doc(content, metadata) == [page_content |-> content, metadata |-> metadata]

SampleDocs ==
    {Doc("x", EmptyDict), Doc("y", [id |-> PyStr("k1")]), Doc("z", [id |-> PyInt(0)])}

DocLists == UNION {[1..n -> SampleDocs] : n \in 0..MaxDocs}

SampleConnectors == {None, PyList(<<[id |-> "web-search"]>>)}

\* Passthrough keyword options: none, an ordinary one, and ones named like a
\* computed field of the payload.
SamplePassthrough ==
    {EmptyDict,
     [temperature |-> PyFloat("0.3")],
     [prompt_truncation |-> PyStr("OFF")],
     [documents |-> PyList(<<[snippet |-> "p", id |-> PyStr("p-1")]>>)],
     [message |-> "override"],
     [chat_history |-> <<>>]}

BuilderKwargs ==
    SamplePassthrough
    \cup {DictMerge(p, [source_documents |-> d]) : p \in SamplePassthrough, d \in DocLists}

SampleEvents ==
    {[event_type |-> "text-generation", text |-> "a"],
     [event_type |-> "text-generation", text |-> "b"],
     [event_type |-> "text-generation", text |-> "c"],
     [event_type |-> "stream-start"],
     [event_type |-> "citation-generation"]}

OptionalFields ==
    {"documents", "citations", "search_results", "search_queries", "token_count"}

\* A vendor response: its text and the optional attributes it exposes.
Responses ==
    {[text |-> "answer", attrs |-> [f \in S |-> PyStr(f)]] : S \in SUBSET OptionalFields}

Handlers == {"_generate", "_agenerate", "_stream", "_astream"}

AsyncHandlers == {"_agenerate", "_astream"}

----------------------------------------------------------------------------
(* get_role, lines 25-44.                                                  *)

\* get_role without the ChatMessage test of line 37.
get_role_no_chat_message(message) ==
    IF message.kind = "HumanMessage"
    THEN [role |-> "User"]
    ELSE IF message.kind = "AIMessage"
    THEN [role |-> "Chatbot"]
    ELSE IF message.kind = "SystemMessage"
    THEN [role |-> "System"]
    ELSE Raise("ValueError")

\* get_role with a default role in place of the raise of line 44.
get_role_default_user(message) ==
    IF message.kind = "AIMessage"
    THEN [role |-> "Chatbot"]
    ELSE IF message.kind = "SystemMessage"
    THEN [role |-> "System"]
    ELSE [role |-> "User"]

\* What get_role(message) returns, [role |-> ...], or raises.
get_role(message) ==
    IF message.kind = "ChatMessage" \/ message.kind = "HumanMessage"
    THEN [role |-> "User"]
    ELSE IF message.kind = "AIMessage"
    THEN [role |-> "Chatbot"]
    ELSE IF message.kind = "SystemMessage"
    THEN [role |-> "System"]
    ELSE Raise("ValueError")

----------------------------------------------------------------------------
(* get_cohere_chat_request, lines 47-92.                                   *)

\* The id of the document at zero-based position i, line 69.
DocumentId(doc, i) ==
    IF Truthy(DictGet(doc.metadata, "id"))
    THEN DictGet(doc.metadata, "id")
    ELSE PyStr("doc-" \o ToString(i))

\* `documents`, lines 63-73.
Documents(kw) ==
    IF "source_documents" \notin DOMAIN kw
    THEN None
    ELSE PyList([i \in 1..Len(kw["source_documents"]) |->
                   [snippet |-> kw["source_documents"][i].page_content,
                    id |-> DocumentId(kw["source_documents"][i], i - 1)]])

\* `maybe_connectors`, line 75.
MaybeConnectors(documents, conn) == IF documents = None THEN conn ELSE None

\* prompt_truncation with `and` in place of the `or` of line 80.
PromptTruncation_and(documents, conn) ==
    IF documents # None /\ conn # None THEN PyStr("AUTO") ELSE None

\* `prompt_truncation`, lines 79-81.
PromptTruncation(documents, conn) ==
    IF documents # None \/ conn # None THEN PyStr("AUTO") ELSE None

\* messages[0].content in place of messages[-1].content.
CurrentMessage_first(msgs) == msgs[1].content

\* messages[-1].content, line 84.
CurrentMessage(msgs) == msgs[Len(msgs)].content

\* The comprehension over messages[:-1], lines 85-87.
ChatHistory(msgs) ==
    [i \in 1..(Len(msgs) - 1) |-> [role |-> get_role(msgs[i]).role, message |-> msgs[i].content]]

get_cohere_chat_request(msgs, conn, kw) ==
    LET documents == Documents(kw)
        rest == DictPop(kw, "source_documents")
        computed ==
            [message |-> CurrentMessage(msgs),
             chat_history |-> ChatHistory(msgs),
             documents |-> documents,
             connectors |-> MaybeConnectors(documents, conn),
             prompt_truncation |-> PromptTruncation(documents, conn)]
    IN  IF Len(msgs) = 0
        THEN Raise("IndexError")
        ELSE IF \E i \in 1..(Len(msgs) - 1) : Raised(get_role(msgs[i]))
        THEN Raise("ValueError")
        ELSE DictMerge(computed, rest)

----------------------------------------------------------------------------
(* ChatCohere, lines 95-237.                                               *)

\* _default_params, lines 126-130.
DefaultParams == [temperature |-> PyFloat("0.75")]

\* TRUE iff the call goes through _stream / _astream.
UsesStream(v, s) == v \in {"_stream", "_astream"} \/ s

\* TRUE iff the vendor chat call of the variant is awaited: _astream awaits
\* self.async_client.chat (line 163); _stream and _generate call self.client.chat
\* (lines 145, 197); so does the non-streaming branch of _agenerate (line 223).
ChatIsAwaited(v, s) ==
    IF v = "_astream" THEN TRUE
    ELSE IF v = "_agenerate" THEN s
    ELSE FALSE

\* `for data in stream` blocks, `async for data in stream` awaits.
FetchIsAwaited(v) == v \in AsyncHandlers

\* Line 148 / 166: the events the loop forwards.
IsForwarded(data) == data.event_type = "text-generation"

\* A chunk made without the event's text.
ChunkContent_empty(data) == ""

\* Lines 149-150 / 167-168: the content of the chunk made from an event.
ChunkContent(data) == data.text

\* _get_generation_info, lines 173-181: reads the five attributes.
get_generation_info(resp) ==
    IF OptionalFields \subseteq DOMAIN resp.attrs
    THEN [f \in OptionalFields |-> resp.attrs[f]]
    ELSE Raise("AttributeError")

\* Lines 199-207 and 225-233: the response unwrapped into a ChatResult.
Unwrap(resp) ==
    IF "documents" \in DOMAIN resp.attrs
    THEN IF Raised(get_generation_info(resp))
         THEN Raise("AttributeError")
         ELSE [text |-> resp.text, generation_info |-> get_generation_info(resp)]
    ELSE [text |-> resp.text, generation_info |-> None]

RECURSIVE Concat(_)
Concat(texts) == IF texts = <<>> THEN "" ELSE texts[1] \o Concat(Tail(texts))

\* generate_from_stream / agenerate_from_stream: the chunks folded into one result.
generate_from_stream(chunks) == [text |-> Concat(chunks), generation_info |-> None]

----------------------------------------------------------------------------

Init ==
    /\ variant = "none"
    /\ streaming = FALSE
    /\ run_manager = FALSE
    /\ pc = "idle"
    /\ messages = <<>>
    /\ connectors = None
    /\ kwargs = EmptyDict
    /\ request = None
    /\ error = "none"
    /\ vendorCalls = 0
    /\ awaited = FALSE
    /\ otherRan = FALSE
    /\ consumed = <<>>
    /\ delivered = <<>>
    /\ reported = <<>>
    /\ response = None
    /\ result = None

\* Everything but the arguments, as at the start of a call.
Fresh ==
    /\ request' = None
    /\ error' = "none"
    /\ vendorCalls' = 0
    /\ awaited' = FALSE
    /\ otherRan' = FALSE
    /\ consumed' = <<>>
    /\ delivered' = <<>>
    /\ reported' = <<>>
    /\ response' = None
    /\ result' = None

\* A caller calls get_role(message).
CallGetRole ==
    /\ pc = "idle"
    /\ \E m \in RoleInputs : messages' = <<m>>
    /\ variant' = "get_role"
    /\ pc' = "called"
    /\ connectors' = None
    /\ kwargs' = EmptyDict
    /\ Fresh
    /\ UNCHANGED <<streaming, run_manager>>

\* get_role runs.
RunGetRole ==
    /\ pc = "called"
    /\ variant = "get_role"
    /\ request' = get_role(messages[1])
    /\ pc' = "built"
    /\ UNCHANGED <<variant, streaming, run_manager, messages, connectors, kwargs, error,
                   vendorCalls, awaited, otherRan, consumed, delivered, reported,
                   response, result>>

\* A caller calls get_cohere_chat_request(messages, connectors=..., **kwargs).
CallBuilder ==
    /\ pc = "idle"
    /\ \E m \in Histories, c \in SampleConnectors, kw \in BuilderKwargs :
         /\ messages' = m
         /\ connectors' = c
         /\ kwargs' = kw
    /\ variant' = "get_cohere_chat_request"
    /\ pc' = "called"
    /\ Fresh
    /\ UNCHANGED <<streaming, run_manager>>

\* get_cohere_chat_request runs.  It reads `messages` by indexing and slicing
\* and pops only from its own kwargs dict.
RunBuilder ==
    /\ pc = "called"
    /\ variant = "get_cohere_chat_request"
    /\ request' = get_cohere_chat_request(messages, connectors, kwargs)
    /\ pc' = "built"
    /\ UNCHANGED <<variant, streaming, run_manager, messages, connectors, kwargs, error,
                   vendorCalls, awaited, otherRan, consumed, delivered, reported,
                   response, result>>

\* The framework calls one of the four handlers.
Invoke ==
    /\ pc = "idle"
    /\ \E v \in Handlers, s \in BOOLEAN, rm \in BOOLEAN, m \in Histories :
         /\ variant' = v
         /\ streaming' = (s /\ v \in {"_generate", "_agenerate"})
         /\ run_manager' = rm
         /\ messages' = m
    /\ connectors' = None
    /\ kwargs' = DefaultParams
    /\ pc' = "called"
    /\ Fresh

\* The handler's body up to its vendor call: the request is built (lines 144,
\* 162, 196, 222) and chat(**request) is issued (lines 145, 163, 197, 223), or
\* the builder's exception leaves the handler.  Once the request is handed to
\* the vendor client the handler reads neither it nor its arguments again, and
\* they are dropped from the state.
StartHandler ==
    /\ pc = "called"
    /\ variant \in Handlers
    /\ LET req == get_cohere_chat_request(messages, connectors, kwargs)
       IN  IF Raised(req)
           THEN /\ request' = req
                /\ error' = req.raised
                /\ pc' = "raised"
                /\ UNCHANGED <<messages, connectors, kwargs, vendorCalls, awaited>>
           ELSE /\ vendorCalls' = vendorCalls + 1
                /\ awaited' = ChatIsAwaited(variant, streaming)
                /\ pc' = "chat"
                /\ request' = None
                /\ messages' = <<>>
                /\ connectors' = None
                /\ kwargs' = EmptyDict
                /\ UNCHANGED error
    /\ UNCHANGED <<variant, streaming, run_manager, otherRan, consumed, delivered,
                   reported, response, result>>

\* The non-streaming vendor call returns a response, which is unwrapped
\* (lines 199-207, 225-233).
ChatReturnsResponse ==
    /\ pc = "chat"
    /\ ~UsesStream(variant, streaming)
    /\ \E r \in Responses :
         /\ response' = r
         /\ IF Raised(Unwrap(r))
            THEN /\ error' = Unwrap(r).raised
                 /\ pc' = "raised"
                 /\ UNCHANGED result
            ELSE /\ result' = Unwrap(r)
                 /\ pc' = "done"
                 /\ UNCHANGED error
    /\ awaited' = FALSE
    /\ otherRan' = FALSE
    /\ UNCHANGED <<variant, streaming, run_manager, messages, connectors, kwargs,
                   request, vendorCalls, consumed, delivered, reported>>

\* The streaming vendor call returns the stream; the loop fetches its first event.
ChatReturnsStream ==
    /\ pc = "chat"
    /\ UsesStream(variant, streaming)
    /\ pc' = "fetch"
    /\ awaited' = FetchIsAwaited(variant)
    /\ otherRan' = FALSE
    /\ UNCHANGED <<variant, streaming, run_manager, messages, connectors, kwargs,
                   request, error, vendorCalls, consumed, delivered, reported,
                   response, result>>

\* The stream hands over its next event (lines 147-151, 165-169): a
\* "text-generation" event is wrapped into a chunk and yielded, any other
\* event is skipped and the next one is fetched.
FetchEvent ==
    /\ pc = "fetch"
    /\ Len(consumed) < MaxEvents
    /\ \E e \in SampleEvents :
         /\ consumed' = Append(consumed, e)
         /\ IF IsForwarded(e)
            THEN /\ delivered' = Append(delivered, ChunkContent(e))
                 /\ pc' = "yielded"
                 /\ awaited' = FALSE
            ELSE /\ UNCHANGED delivered
                 /\ pc' = "fetch"
                 /\ awaited' = FetchIsAwaited(variant)
    /\ otherRan' = FALSE
    /\ UNCHANGED <<variant, streaming, run_manager, messages, connectors, kwargs,
                   request, error, vendorCalls, reported, response, result>>

\* The consumer asks for the next chunk: the generator resumes after `yield`,
\* reports the chunk it had yielded (lines 152-153, 170-171) and fetches the
\* next event.
Resume ==
    /\ pc = "yielded"
    /\ reported' = IF run_manager
                   THEN Append(reported, delivered[Len(delivered)])
                   ELSE reported
    /\ pc' = "fetch"
    /\ awaited' = FetchIsAwaited(variant)
    /\ UNCHANGED <<variant, streaming, run_manager, messages, connectors, kwargs,
                   request, error, vendorCalls, otherRan, consumed, delivered,
                   response, result>>

\* The consumer of _stream / _astream stops pulling: the generator is never
\* resumed past its `yield`.  generate_from_stream always drains its stream.
Close ==
    /\ pc = "yielded"
    /\ variant \in {"_stream", "_astream"}
    /\ pc' = "closed"
    /\ UNCHANGED <<variant, streaming, run_manager, messages, connectors, kwargs,
                   request, error, vendorCalls, awaited, otherRan, consumed,
                   delivered, reported, response, result>>

\* The vendor stream ends: the generator is exhausted, and in streaming mode
\* _generate / _agenerate return the folded chunks (lines 194, 220).
StreamEnds ==
    /\ pc = "fetch"
    /\ pc' = "done"
    /\ result' = IF streaming THEN generate_from_stream(delivered) ELSE result
    /\ awaited' = FALSE
    /\ otherRan' = FALSE
    /\ UNCHANGED <<variant, streaming, run_manager, messages, connectors, kwargs,
                   request, error, vendorCalls, consumed, delivered, reported,
                   response>>

\* Another task of the event loop runs while the call is suspended at an await.
OtherTask ==
    /\ pc \in {"chat", "fetch"}
    /\ awaited
    /\ ~otherRan
    /\ otherRan' = TRUE
    /\ UNCHANGED <<variant, streaming, run_manager, pc, messages, connectors, kwargs,
                   request, error, vendorCalls, awaited, consumed, delivered,
                   reported, response, result>>

\* The call is over and its frame is gone; the next one can start.
Finish ==
    /\ pc \in {"built", "done", "raised", "closed"}
    /\ pc' = "idle"
    /\ variant' = "none"
    /\ streaming' = FALSE
    /\ run_manager' = FALSE
    /\ messages' = <<>>
    /\ connectors' = None
    /\ kwargs' = EmptyDict
    /\ Fresh

Next ==
    \/ CallGetRole
    \/ RunGetRole
    \/ CallBuilder
    \/ RunBuilder
    \/ Invoke
    \/ StartHandler
    \/ ChatReturnsResponse
    \/ ChatReturnsStream
    \/ FetchEvent
    \/ Resume
    \/ Close
    \/ StreamEnds
    \/ OtherTask
    \/ Finish

Spec == Init /\ [][Next]_vars

----------------------------------------------------------------------------
(* Properties.                                                             *)

\* A direct call of get_cohere_chat_request has returned a payload.
BuilderReturned ==
    /\ pc = "built"
    /\ variant = "get_cohere_chat_request"
    /\ ~Raised(request)

RecognizedKinds == {"ChatMessage", "HumanMessage", "AIMessage", "SystemMessage"}

\* The role the specification gives each message kind.
SpecRole(kind) ==
    CASE kind \in {"HumanMessage", "ChatMessage"} -> "User"
      [] kind = "AIMessage" -> "Chatbot"
      [] kind = "SystemMessage" -> "System"

\* The history the specification asks for: role and text of all but the last.
SpecHistory(msgs) ==
    [i \in 1..(Len(msgs) - 1) |->
        [role |-> SpecRole(msgs[i].kind), message |-> msgs[i].content]]

PriorRecognized(msgs) ==
    \A i \in 1..(Len(msgs) - 1) : msgs[i].kind \in RecognizedKinds

\* C1: in every payload the builder returns, whatever source documents,
\* connectors and passthrough options were passed, 'documents' and
\* 'connectors' are never both non-null.
C1_DocumentsExcludeConnectors ==
    BuilderReturned => ~(request["documents"] # None /\ request["connectors"] # None)

\* C2, as stated: the step of the builder leaves the message list unchanged,
\* and for a non-empty history it returns a payload whose 'message' is the last
\* message's text and whose 'chat_history' is the mapped role and text of the
\* n-1 messages before it, in order.
C2_LastIsMessageRestIsHistory ==
    [][(pc = "called" /\ variant = "get_cohere_chat_request"
          /\ Len(messages) >= 1 /\ PriorRecognized(messages))
       => /\ messages' = messages
          /\ ~Raised(request')
          /\ request'["message"] = messages[Len(messages)].content
          /\ request'["chat_history"] = SpecHistory(messages)]_vars

\* C2, amended: the same, for the calls that pass no passthrough option named
\* 'message' or 'chat_history'.
C2_LastIsMessageUnlessOverridden ==
    [][(pc = "called" /\ variant = "get_cohere_chat_request"
          /\ Len(messages) >= 1 /\ PriorRecognized(messages)
          /\ "message" \notin DOMAIN kwargs /\ "chat_history" \notin DOMAIN kwargs)
       => /\ messages' = messages
          /\ ~Raised(request')
          /\ request'["message"] = messages[Len(messages)].content
          /\ request'["chat_history"] = SpecHistory(messages)]_vars

C2_Witness ==
    /\ BuilderReturned
    /\ messages = <<Msg("HumanMessage", "hi"), Msg("AIMessage", "hello"),
                    Msg("HumanMessage", "how are you")>>
    /\ request["message"] = "how are you"
    /\ request["chat_history"] =
         <<[role |-> "User", message |-> "hi"], [role |-> "Chatbot", message |-> "hello"]>>

\* C3: get_role maps user and generic-role messages to "User", assistant
\* messages to "Chatbot", system messages to "System", and raises the
\* unrecognized-kind error, returning no role, for every other kind.
C3_RoleMapping ==
    (pc = "built" /\ variant = "get_role")
    => request = IF messages[1].kind \in RecognizedKinds
                 THEN [role |-> SpecRole(messages[1].kind)]
                 ELSE Raise("ValueError")

C3_Witness ==
    /\ pc = "built"
    /\ variant = "get_role"
    /\ messages[1].kind = "ChatMessage"
    /\ request = [role |-> "User"]

\* The texts of the "text-generation" events of a stream, in order.
RECURSIVE TextGenerationTexts(_)
TextGenerationTexts(events) ==
    IF events = <<>>
    THEN <<>>
    ELSE IF events[1].event_type = "text-generation"
         THEN <<events[1].text>> \o TextGenerationTexts(Tail(events))
         ELSE TextGenerationTexts(Tail(events))

\* C4: the chunks yielded so far are exactly the texts of the
\* "text-generation" events fetched so far, one chunk per event and in
\* arrival order, and in streaming mode _generate / _agenerate return one
\* result whose text is the concatenation of those texts.
C4_OneChunkPerTextGeneration ==
    /\ delivered = TextGenerationTexts(consumed)
    /\ (pc = "done" /\ streaming) => result.text = Concat(TextGenerationTexts(consumed))

C4_Witness ==
    /\ pc = "done"
    /\ streaming
    /\ Len(consumed) = 4
    /\ delivered = <<"a", "b", "c">>
    /\ result.text = "abc"

\* C5: once a non-streaming _generate / _agenerate has its vendor response,
\* whatever subset of the optional fields the response exposes, unwrapping
\* does not fail: without 'documents' the result has the text and no
\* generation metadata, with it the result has the metadata.
C5_UnwrapNeverFails ==
    response # None
    => /\ pc = "done"
       /\ error = "none"
       /\ result.text = response.text
       /\ ("documents" \notin DOMAIN response.attrs) => result.generation_info = None
       /\ ("documents" \in DOMAIN response.attrs) => result.generation_info # None

\* Some message of the list is of a kind get_role does not recognize.
HasUnrecognized(msgs) == \E i \in 1..Len(msgs) : msgs[i].kind \notin RecognizedKinds

\* One of the messages before the last is of such a kind.
HasUnrecognizedPrior(msgs) ==
    \E i \in 1..(Len(msgs) - 1) : msgs[i].kind \notin RecognizedKinds

\* The call fails with the unrecognized-kind error and issues no vendor call.
FailsUnrecognized ==
    /\ request' = Raise("ValueError")
    /\ vendorCalls' = 0
    /\ IF variant \in Handlers
       THEN pc' = "raised" /\ error' = "ValueError"
       ELSE pc' = "built"

\* C6, as stated: a call of the builder or of a handler whose message list
\* holds a message of an unrecognized kind, at any position, fails with the
\* unrecognized-kind error and issues no vendor call.
C6_AnyUnrecognizedFails ==
    [][(pc = "called" /\ variant # "get_role" /\ HasUnrecognized(messages))
       => FailsUnrecognized]_vars

\* C6, amended: the same for a message of an unrecognized kind at any position
\* but the last; and an error that left a handler is followed by no vendor
\* call of that handler.
C6_UnrecognizedPriorFails ==
    [][/\ (pc = "called" /\ variant # "get_role" /\ HasUnrecognizedPrior(messages))
          => FailsUnrecognized
       /\ pc = "raised" => (pc' = "idle" /\ vendorCalls' = 0)]_vars

C6_Witness ==
    /\ pc = "raised"
    /\ variant = "_astream"
    /\ error = "ValueError"
    /\ vendorCalls = 0
    /\ messages = <<Msg("FunctionMessage", "42"), Msg("HumanMessage", "hi")>>

\* Source documents or connectors were passed to the builder.
RetrievalPresent == "source_documents" \in DOMAIN kwargs \/ connectors # None

\* C7, as stated: 'prompt_truncation' is "AUTO" if and only if source
\* documents or connectors are present in the call, and null when neither is.
C7_AutoIffRetrieval ==
    BuilderReturned
    => /\ request["prompt_truncation"] = PyStr("AUTO") <=> RetrievalPresent
       /\ ~RetrievalPresent => request["prompt_truncation"] = None

\* C7, amended: the same, for the calls that pass no passthrough option named
\* 'prompt_truncation'.
C7_AutoIffRetrievalUnlessOverridden ==
    (BuilderReturned /\ "prompt_truncation" \notin DOMAIN kwargs)
    => /\ request["prompt_truncation"] = PyStr("AUTO") <=> RetrievalPresent
       /\ ~RetrievalPresent => request["prompt_truncation"] = None

C7_Witness ==
    /\ BuilderReturned
    /\ "source_documents" \in DOMAIN kwargs
    /\ connectors # None
    /\ request["prompt_truncation"] = PyStr("AUTO")
    /\ request["connectors"] = None

\* The entry the specification asks for the document at zero-based position i.
SpecDocument(doc, i) ==
    [snippet |-> doc.page_content,
     id |-> IF "id" \in DOMAIN doc.metadata
            THEN doc.metadata["id"]
            ELSE PyStr("doc-" \o ToString(i))]

\* C8: when source documents are passed (and no passthrough option replaces
\* the computed field), 'documents' has one entry per document, in order,
\* with the document's content as snippet and its explicit id as id whenever
\* it carries one, "doc-<i>" only when it carries none; 'source_documents'
\* is not in the payload.
C8_DocumentsNormalized ==
    (BuilderReturned /\ "source_documents" \in DOMAIN kwargs
       /\ "documents" \notin DOMAIN kwargs)
    => /\ "source_documents" \notin DOMAIN request
       /\ request["documents"] =
            PyList([i \in 1..Len(kwargs["source_documents"]) |->
                      SpecDocument(kwargs["source_documents"][i], i - 1)])

\* C9: with a progress callback, once the consumer has stopped pulling or
\* the stream has ended, every chunk handed to the consumer has been reported
\* to the callback exactly once, with its text, in the same order.
C9_EveryChunkReported ==
    (run_manager /\ pc \in {"closed", "done"} /\ UsesStream(variant, streaming))
    => reported = delivered

\* C10: in the async variants every vendor call and every stream fetch in
\* flight is awaited, so that other tasks can run meanwhile, and a finished
\* call has issued exactly one vendor chat call.
C10_AsyncNeverBlocks ==
    /\ (variant \in AsyncHandlers /\ pc \in {"chat", "fetch"}) => awaited
    /\ (variant \in AsyncHandlers /\ pc = "done") => vendorCalls = 1

====
